---- MODULE Spec2Model ----
(***************************************************************************)
(* Model of topdecked_converter_app.py: the Convert handler of the         *)
(* TopDecked / TCG ImportErrors -> TCG PowerTools converter, stage by       *)
(* stage, with the pandas operations it relies on written out.             *)
(*                                                                         *)
(* Text is a sequence of one-character strings, so that lower(), strip()   *)
(* and the ordering of strings are computed and not assumed.  A missing    *)
(* cell (pandas NaN) is the one-element sequence NaN, which is no text.    *)
(***************************************************************************)
EXTENDS Integers, Sequences, FiniteSets, TLC

\* ---------------------------------------------------------------- text

NaN == <<"<NaN>">>

IsNa(x) == x = NaN

UpperLetters == <<"A","B","C","D","E","F","G","H","I","J","K","L","M",
                  "N","O","P","Q","R","S","T","U","V","W","X","Y","Z">>

LowerLetters == <<"a","b","c","d","e","f","g","h","i","j","k","l","m",
                  "n","o","p","q","r","s","t","u","v","w","x","y","z">>

Digits == <<"0","1","2","3","4","5","6","7","8","9">>

IndexIn(c, seq) == IF \E i \in 1..Len(seq) : seq[i] = c
                   THEN CHOOSE i \in 1..Len(seq) : seq[i] = c
                   ELSE 0

\* the code point of a character (the characters the model's texts use)
Code(c) == IF IndexIn(c, UpperLetters) > 0 THEN 64 + IndexIn(c, UpperLetters)
           ELSE IF IndexIn(c, LowerLetters) > 0 THEN 96 + IndexIn(c, LowerLetters)
           ELSE IF IndexIn(c, Digits) > 0 THEN 47 + IndexIn(c, Digits)
           ELSE IF c = " " THEN 32
           ELSE IF c = "-" THEN 45
           ELSE IF c = "." THEN 46
           ELSE IF c = "|" THEN 124
           ELSE 0

LowerChar(c) == IF IndexIn(c, UpperLetters) > 0
                THEN LowerLetters[IndexIn(c, UpperLetters)]
                ELSE c

UpperChar(c) == IF IndexIn(c, LowerLetters) > 0
                THEN UpperLetters[IndexIn(c, LowerLetters)]
                ELSE c

\* str.lower()
Lower(s) == [i \in 1..Len(s) |-> LowerChar(s[i])]

\* str.upper()
Upper(s) == [i \in 1..Len(s) |-> UpperChar(s[i])]

RECURSIVE LStrip(_, _)
LStrip(s, chars) == IF s # <<>> /\ Head(s) \in chars THEN LStrip(Tail(s), chars) ELSE s

RECURSIVE RStrip(_, _)
RStrip(s, chars) == IF s # <<>> /\ s[Len(s)] \in chars
                    THEN RStrip(SubSeq(s, 1, Len(s) - 1), chars)
                    ELSE s

\* str.strip(chars): the characters of chars removed from both ends
StripChars(s, chars) == RStrip(LStrip(s, chars), chars)

\* str.strip(): white space removed from both ends
Strip(s) == StripChars(s, {" "})

\* needle in hay (Python's substring test)
Contains(hay, needle) ==
    \E i \in 1..(Len(hay) + 1) :
        /\ i + Len(needle) - 1 <= Len(hay)
        /\ SubSeq(hay, i, i + Len(needle) - 1) = needle

\* a < b for two texts, by code point (Python's str ordering)
RECURSIVE StrLess(_, _)
StrLess(a, b) == IF b = <<>> THEN FALSE
                 ELSE IF a = <<>> THEN TRUE
                 ELSE IF Code(Head(a)) # Code(Head(b)) THEN Code(Head(a)) < Code(Head(b))
                 ELSE StrLess(Tail(a), Tail(b))

\* the order groupby(sort=True) puts key values in: texts in order, NaN last
CellLess(a, b) == IF IsNa(a) THEN FALSE
                  ELSE IF IsNa(b) THEN TRUE
                  ELSE StrLess(a, b)

RECURSIVE SumSeq(_)
SumSeq(s) == IF s = <<>> THEN 0 ELSE Head(s) + SumSeq(Tail(s))


\* ---------------------------------------------------------------- tables

\* A canonical row: the eight columns the pipeline works on.  A cell is a text
\* or NaN; QUANTITY is a cell before consolidate_duplicates and an integer after.
CanonicalRow(q, n, sn, sc, f, c, l, nt) ==
    [QUANTITY |-> q, NAME |-> n, SETNAME |-> sn, SETCODE |-> sc,
     FINISH |-> f, CONDITION |-> c, LANG |-> l, NOTES |-> nt]

RangeOf(s) == {s[i] : i \in 1..Len(s)}

basic_land_names == { <<"P","l","a","i","n","s">>, <<"I","s","l","a","n","d">>,
                      <<"S","w","a","m","p">>, <<"M","o","u","n","t","a","i","n">>,
                      <<"F","o","r","e","s","t">> }

KeepRow(r) == ~(r.NAME \in basic_land_names)

\* remove_basic_lands: df[~df["NAME"].isin(basic_land_names)]
remove_basic_lands(rows) == SelectSeq(rows, KeepRow)

\* ------------------------------------------------- consolidate_duplicates

RECURSIVE DigitsValue(_)
DigitsValue(s) == IF s = <<>> THEN 0
                  ELSE 10 * DigitsValue(SubSeq(s, 1, Len(s) - 1))
                       + (IndexIn(s[Len(s)], Digits) - 1)

AllDigits(s) == \A i \in 1..Len(s) : IndexIn(s[i], Digits) > 0

\* the unsigned decimal numerals pd.to_numeric reads: digits, or digits "." digits
IsNumeral(s) ==
    \/ s # <<>> /\ AllDigits(s)
    \/ \E i \in 2..Len(s) : /\ s[i] = "."
                             /\ AllDigits(SubSeq(s, 1, i - 1))
                             /\ AllDigits(SubSeq(s, i + 1, Len(s)))

IntegerPart(s) == IF AllDigits(s) THEN DigitsValue(s)
                  ELSE LET i == CHOOSE i \in 2..Len(s) : s[i] = "."
                       IN  DigitsValue(SubSeq(s, 1, i - 1))

\* pd.to_numeric(cell, errors="coerce"): whether the cell reads as a number
Numeric(cell) == /\ ~IsNa(cell)
                 /\ cell # <<>>
                 /\ IF Head(cell) = "-" THEN IsNumeral(Tail(cell)) ELSE IsNumeral(cell)

\* pd.to_numeric(errors="coerce").fillna(0).astype(int): what does not read as a
\* number is 0, and astype(int) cuts the fraction off (towards zero)
QuantityToInt(cell) ==
    IF ~Numeric(cell) THEN 0
    ELSE IF Head(cell) = "-" THEN 0 - IntegerPart(Tail(cell))
    ELSE IntegerPart(cell)

group_cols == <<"NAME", "SETNAME", "SETCODE", "FINISH", "CONDITION", "LANG", "NOTES">>

KeyOf(r) == [i \in 1..Len(group_cols) |-> r[group_cols[i]]]

\* tuples of cells in the order groupby(sort=True) yields the groups
KeyLess(a, b) == \E i \in 1..Len(a) :
                    /\ \A j \in 1..(i - 1) : a[j] = b[j]
                    /\ CellLess(a[i], b[i])

RECURSIVE SortedKeys(_)
SortedKeys(S) == IF S = {} THEN <<>>
                 ELSE LET m == CHOOSE m \in S : \A k \in S \ {m} : KeyLess(m, k)
                      IN  <<m>> \o SortedKeys(S \ {m})

\* the sum of the coerced quantities of the rows with identity key k
GroupQuantity(rows, k) ==
    SumSeq([i \in 1..Len(rows) |->
               IF KeyOf(rows[i]) = k THEN QuantityToInt(rows[i].QUANTITY) ELSE 0])

\* groupby with dropna left at its default: a key with a NaN in it is no group
DuplicateGroupsDropNa(rows) ==
    {k \in {KeyOf(r) : r \in RangeOf(rows)} : \A i \in 1..Len(k) : ~IsNa(k[i])}

\* groupby(group_cols, dropna=False, as_index=False).agg({"QUANTITY": "sum"}):
\* the groups the rows fall in, NaN being a key value like another
DuplicateGroups(rows) == {KeyOf(r) : r \in RangeOf(rows)}

\* consolidate_duplicates: one row per identity key, in key order, the
\* quantities coerced to integers and summed
consolidate_duplicates(rows) ==
    LET keys == SortedKeys(DuplicateGroups(rows))
    IN  [i \in 1..Len(keys) |->
            CanonicalRow(GroupQuantity(rows, keys[i]),
                         keys[i][1], keys[i][2], keys[i][3], keys[i][4],
                         keys[i][5], keys[i][6], keys[i][7])]

\* ------------------------------------------------------- consolidate_sets

SetsConsolidated == <<" ","|"," ","S","e","t","s"," ","c","o","n","s","o","l","i","d","a","t","e","d">>

\* df["NAME"].str.lower().str.strip(); NaN stays NaN
GROUP_KEY(r) == IF IsNa(r.NAME) THEN NaN ELSE Strip(Lower(r.NAME))

\* df.groupby("GROUP_KEY"): dropna is left at its default, rows without a name
\* are in no group
NameGroups(rows) == {GROUP_KEY(r) : r \in RangeOf(rows)} \ {NaN}

RowInGroup(r, key) == GROUP_KEY(r) = key

\* the rows of one name group, in the order the table has them
GroupRows(rows, key) == LET In(r) == RowInGroup(r, key) IN SelectSeq(rows, In)

\* group_df["SETNAME"].nunique(): NaN is not counted
SetNames(group) == {r.SETNAME : r \in RangeOf(group)} \ {NaN}

\* group_df.groupby("SETNAME")["QUANTITY"].sum(), at one SETNAME
SetQuantity(group, n) ==
    SumSeq([i \in 1..Len(group) |-> IF group[i].SETNAME = n THEN group[i].QUANTITY ELSE 0])

\* the total taken from the sums by set name, which leave the rows without one out
TotalQuantityOfSets(group) ==
    SumSeq([i \in 1..Len(group) |->
               IF IsNa(group[i].SETNAME) THEN 0 ELSE group[i].QUANTITY])

\* group_df["QUANTITY"].sum()
TotalQuantity(group) == SumSeq([i \in 1..Len(group) |-> group[i].QUANTITY])

\* idxmax over sums indexed in descending order: the last of the largest by name
MaxSetnameLast(group) ==
    LET names == {r.SETNAME : r \in RangeOf(group)} \ {NaN}
        sum(n) == SumSeq([i \in 1..Len(group) |->
                             IF group[i].SETNAME = n THEN group[i].QUANTITY ELSE 0])
        best  == {n \in names : \A m \in names : sum(m) <= sum(n)}
    IN  CHOOSE n \in best : \A m \in best \ {n} : StrLess(m, n)

\* group_df.groupby("SETNAME")["QUANTITY"].sum().idxmax(): the sums are indexed
\* by SETNAME in sorted order and idxmax takes the first of the largest
MaxSetname(group) ==
    LET names == SetNames(group)
        sum(n) == SetQuantity(group, n)
        best  == {n \in names : \A m \in names : sum(m) <= sum(n)}
    IN  CHOOSE n \in best : \A m \in best \ {n} : StrLess(n, m)

Consolidates(group) == Cardinality(SetNames(group)) > 1

\* the row of a group spanning several sets; NOTES + str raises on a NaN NOTES
ConsolidatedRow(group) ==
    [group[1] EXCEPT !.QUANTITY = TotalQuantity(group),
                     !.SETNAME = MaxSetname(group),
                     !.NOTES = StripChars(group[1].NOTES \o SetsConsolidated, {" ", "|"})]

RECURSIVE ConcatGroups(_, _)
ConcatGroups(rows, keys) ==
    IF keys = <<>> THEN <<>>
    ELSE LET g == GroupRows(rows, Head(keys))
         IN  (IF Consolidates(g) THEN <<ConsolidatedRow(g)>> ELSE g)
             \o ConcatGroups(rows, Tail(keys))

SingleKey(k) == <<k>>

\* the name groups of a table in the order groupby yields them
SortedNameGroups(rows) ==
    LET keys == SortedKeys({SingleKey(k) : k \in NameGroups(rows)})
    IN  [i \in 1..Len(keys) |-> keys[i][1]]

\* result_rows holds a Series for a consolidated group and dicts for the rows of
\* another: whether it starts with a Series and has a dict further on
SeriesThenDicts(rows) ==
    LET keys == SortedNameGroups(rows)
    IN  /\ keys # <<>>
        /\ Consolidates(GroupRows(rows, keys[1]))
        /\ \E i \in 2..Len(keys) : ~Consolidates(GroupRows(rows, keys[i]))

\* pd.DataFrame(result_rows) infers the dtypes anew: a column of NaN only is float64
InferredFloats(rows) ==
    {c \in {"NAME", "FINISH"} : rows # <<>> /\ \A i \in 1..Len(rows) : IsNa(rows[i][c])}

\* consolidate_sets: [raised, columns, rows, floats].  floats are the float64
\* columns of the table given: .str raises on a float64 NAME.  NOTES + str raises
\* for a consolidated group whose first row has NaN NOTES.  pd.DataFrame takes a
\* list that starts with a Series as a list of Series: what it does with the
\* dicts further on is not the code's to say, it raises or takes them as rows
\* (mixed_list_raises).  With no group left pd.DataFrame([]) has no columns.
consolidate_sets(rows, floats, mixed_list_raises) ==
    LET keys == SortedNameGroups(rows)
        bad  == \E i \in 1..Len(keys) :
                    LET g == GroupRows(rows, keys[i])
                    IN  Consolidates(g) /\ IsNa(g[1].NOTES)
        out  == ConcatGroups(rows, keys)
        Raise(e) == [raised |-> e, columns |-> FALSE, rows |-> <<>>, floats |-> {}]
    IN  IF "NAME" \in floats THEN Raise("AttributeError")
        ELSE IF bad THEN Raise("TypeError")
        ELSE IF SeriesThenDicts(rows) /\ mixed_list_raises THEN Raise("AttributeError")
        ELSE [raised |-> "", columns |-> out # <<>>, rows |-> out,
              floats |-> InferredFloats(out)]

\* ------------------------------------------------------------ raw tables

\* A raw table: [columns: sequence of header texts, rows: sequence of rows, each
\* a sequence of cells, one per column].

T_QUANTITY == <<"Q","U","A","N","T","I","T","Y">>
T_NAME == <<"N","A","M","E">>
T_SETNAME == <<"S","E","T","N","A","M","E">>
T_SETCODE == <<"S","E","T","C","O","D","E">>
T_FINISH == <<"F","I","N","I","S","H">>
T_CONDITION == <<"C","O","N","D","I","T","I","O","N">>
T_LANG == <<"L","A","N","G">>
T_NOTES == <<"N","O","T","E","S">>

t_quantity == <<"q","u","a","n","t","i","t","y">>
t_name == <<"n","a","m","e">>
t_expansion == <<"e","x","p","a","n","s","i","o","n">>
t_foil == <<"f","o","i","l">>
t_condition == <<"c","o","n","d","i","t","i","o","n">>
t_language == <<"l","a","n","g","u","a","g","e">>
t_comment == <<"c","o","m","m","e","n","t">>
t_error == <<"e","r","r","o","r">>
t_idProduct == <<"i","d","P","r","o","d","u","c","t">>
t_true == <<"t","r","u","e">>
t_yes == <<"y","e","s">>
t_nan == <<"n","a","n">>
t_Foil == <<"F","o","i","l">>

HasColumn(columns, col) == \E i \in 1..Len(columns) : columns[i] = col

\* df[col] of one row: the cell under the first column of that name
CellAt(columns, row, col) == row[CHOOSE i \in 1..Len(columns) : columns[i] = col]

\* pd.read_csv: an empty field is read as NaN, another field as its text
ReadCell(field) == IF field = <<>> THEN NaN ELSE field

\* pd.read_csv(uploaded_file): [raised, columns, rows]
read_csv(file) ==
    IF file.malformed
    THEN [raised |-> "ParserError", columns |-> <<>>, rows |-> <<>>]
    ELSE [raised |-> "", columns |-> file.columns,
          rows |-> [i \in 1..Len(file.rows) |->
                       [j \in 1..Len(file.columns) |-> ReadCell(file.rows[i][j])]]]

\* the dtype pandas gives a column: a column of NaN only, of a table that has
\* rows, is a float64 column (on which .str raises); a column with a text in it
\* is an object column
FloatColumn(columns, rows, col) ==
    /\ HasColumn(columns, col)
    /\ rows # <<>>
    /\ \A i \in 1..Len(rows) : IsNa(CellAt(columns, rows[i], col))

\* -------------------------------------------------- convert_topdecked_format

\* the first of the required columns the table lacks, <<>> when it has them all
FirstMissing(columns, required) ==
    IF \A i \in 1..Len(required) : HasColumn(columns, required[i]) THEN <<>>
    ELSE required[CHOOSE i \in 1..Len(required) :
                     /\ ~HasColumn(columns, required[i])
                     /\ \A j \in 1..(i - 1) : HasColumn(columns, required[j])]

\* a column that is there, or the "" the code puts in its place
CellOrEmpty(columns, row, col) ==
    IF HasColumn(columns, col) THEN CellAt(columns, row, col) ELSE <<>>

\* convert_topdecked_format: [raised, missing, rows, floats]; floats are the
\* canonical columns among NAME and FINISH that are float64 columns
convert_topdecked_format(df) ==
    LET columns == [i \in 1..Len(df.columns) |-> Upper(Strip(df.columns[i]))]
        missing == FirstMissing(columns, <<T_QUANTITY, T_NAME>>)
    IN  IF missing # <<>>
        THEN [raised |-> "ValueError", missing |-> missing, rows |-> <<>>, floats |-> {}]
        ELSE [raised |-> "", missing |-> <<>>,
              floats |-> {c \in {"NAME", "FINISH"} :
                            FloatColumn(columns, df.rows, IF c = "NAME" THEN T_NAME ELSE T_FINISH)},
              rows |-> [i \in 1..Len(df.rows) |->
                  CanonicalRow(CellAt(columns, df.rows[i], T_QUANTITY),
                               CellAt(columns, df.rows[i], T_NAME),
                               CellOrEmpty(columns, df.rows[i], T_SETNAME),
                               CellOrEmpty(columns, df.rows[i], T_SETCODE),
                               CellOrEmpty(columns, df.rows[i], T_FINISH),
                               CellOrEmpty(columns, df.rows[i], T_CONDITION),
                               CellOrEmpty(columns, df.rows[i], T_LANG),
                               CellOrEmpty(columns, df.rows[i], T_NOTES))]]

\* ------------------------------------------------------ convert_error_format

RemoveAt(s, i) == SubSeq(s, 1, i - 1) \o SubSeq(s, i + 1, Len(s))

\* df.drop(columns=["error"], errors="ignore"): the column named exactly error
DropErrorColumn(df) ==
    IF ~HasColumn(df.columns, t_error) THEN df
    ELSE LET k == CHOOSE i \in 1..Len(df.columns) : df.columns[i] = t_error
         IN  [raised |-> "", columns |-> RemoveAt(df.columns, k),
              rows |-> [i \in 1..Len(df.rows) |-> RemoveAt(df.rows[i], k)]]

\* the table with its first column left as it is
KeepFirstColumn(df) == df

\* df.rename(columns={df.columns[0]: "idProduct"}); df.columns[0] raises on a
\* table without columns
RenameFirstColumn(df) ==
    IF df.columns = <<>>
    THEN [raised |-> "IndexError", columns |-> <<>>, rows |-> <<>>]
    ELSE [df EXCEPT !.columns =
             [i \in 1..Len(df.columns) |->
                 IF df.columns[i] = df.columns[1] THEN t_idProduct ELSE df.columns[i]]]

\* str(x) of a cell
StrOf(cell) == IF IsNa(cell) THEN t_nan ELSE cell

\* "Foil" if str(x).strip().lower() in ["true", "yes", "foil"] else ""
FoilToFinish(cell) ==
    IF Lower(Strip(StrOf(cell))) \in {t_true, t_yes, t_foil} THEN t_Foil ELSE <<>>

\* convert_error_format: [raised, missing, rows, floats]; get_column("foil") is
\* the str "" on a table without that column, and "".apply raises; FINISH is a
\* column of texts
convert_error_format(df) ==
    LET columns == [i \in 1..Len(df.columns) |-> Lower(Strip(df.columns[i]))]
        missing == FirstMissing(columns, <<t_quantity, t_name>>)
    IN  IF missing # <<>>
        THEN [raised |-> "ValueError", missing |-> missing, rows |-> <<>>, floats |-> {}]
        ELSE IF ~HasColumn(columns, t_foil)
        THEN [raised |-> "AttributeError", missing |-> <<>>, rows |-> <<>>, floats |-> {}]
        ELSE [raised |-> "", missing |-> <<>>,
              floats |-> {c \in {"NAME"} : FloatColumn(columns, df.rows, t_name)},
              rows |-> [i \in 1..Len(df.rows) |->
                  CanonicalRow(CellAt(columns, df.rows[i], t_quantity),
                               CellAt(columns, df.rows[i], t_name),
                               CellOrEmpty(columns, df.rows[i], t_expansion),
                               <<>>,
                               FoilToFinish(CellAt(columns, df.rows[i], t_foil)),
                               CellOrEmpty(columns, df.rows[i], t_condition),
                               CellOrEmpty(columns, df.rows[i], t_language),
                               CellOrEmpty(columns, df.rows[i], t_comment))]]

\* ------------------------------------------------------ identifier lookup

\* A key a catalog entry does not have
Absent == <<"<absent>">>

\* dict.get(key, ""): the value, or "" for a key that is not there
GetOr(value) == IF value = Absent THEN <<>> ELSE value

\* load_cardmarket_mapping: the products of the catalog file, [] when the file
\* cannot be opened or parsed
load_cardmarket_mapping(catalog) == IF catalog.readable THEN catalog.products ELSE <<>>

\* the entries build_id_lookup_table files under some name
Indexed(entry) == entry.isdict /\ Lower(Strip(GetOr(entry.name))) # <<>>

EntryName(entry) == Lower(Strip(GetOr(entry.name)))

\* build_id_lookup_table: name -> the entries of that name, in catalog order
build_id_lookup_table(raw_data) ==
    LET names == {EntryName(raw_data[i]) : i \in {j \in 1..Len(raw_data) : Indexed(raw_data[j])}}
    IN  [n \in names |->
            LET Named(e) == Indexed(e) /\ EntryName(e) = n
                found == SelectSeq(raw_data, Named)
            IN  [i \in 1..Len(found) |->
                    [idProduct |-> GetOr(found[i].idProduct),
                     idExpansion |-> GetOr(found[i].idExpansion)]]]

\* get_cardmarket_id: [raised, id].  name.strip() raises on a NaN name; a NaN
\* setname is truthy and setname.strip() raises on it.
get_cardmarket_id(name, setname, lookup) ==
    IF IsNa(name) THEN [raised |-> "AttributeError", id |-> <<>>]
    ELSE LET name_key == Lower(Strip(name))
             matches == IF name_key \in DOMAIN lookup THEN lookup[name_key] ELSE <<>>
         IN  IF matches = <<>> THEN [raised |-> "", id |-> <<>>]
             ELSE IF setname = <<>> THEN [raised |-> "", id |-> matches[1].idProduct]
             ELSE IF IsNa(setname) THEN [raised |-> "AttributeError", id |-> <<>>]
             ELSE LET hint == Lower(Strip(setname))
                      hits == {i \in 1..Len(matches) :
                                  Contains(Lower(matches[i].idExpansion), hint)}
                  IN  IF hits # {}
                      THEN [raised |-> "",
                            id |-> matches[CHOOSE i \in hits : \A j \in hits : i <= j].idProduct]
                      ELSE [raised |-> "", id |-> matches[1].idProduct]

\* The remote set directory and card service, as the run finds them: what the
\* request for the sets and the requests for a card answer ("200", another
\* status, or "error" when the request itself fails), and the directory's sets.
\* fetch_scryfall_sets: [raised, sets]; requests.get is not guarded
fetch_scryfall_sets(net) ==
    IF net.sets_response = "error" THEN [raised |-> "ConnectionError", sets |-> {}]
    ELSE IF net.sets_response = "200"
    THEN [raised |-> "", sets |-> {[name |-> Lower(e.name), code |-> e.code] : e \in net.directory}]
    ELSE [raised |-> "", sets |-> {}]

\* the id the card service gives the card of that name in that set
CardId(name, setcode) == name \o <<"-">> \o setcode

\* get_scryfall_id: [raised, id]
get_scryfall_id(name, setname, net) ==
    LET fetched == fetch_scryfall_sets(net)
    IN  IF fetched.raised # "" THEN [raised |-> fetched.raised, id |-> <<>>]
        ELSE IF IsNa(setname) THEN [raised |-> "AttributeError", id |-> <<>>]
        ELSE LET found == {e \in fetched.sets : e.name = Lower(Strip(setname))}
             IN  IF found = {} \/ (CHOOSE e \in found : TRUE).code = <<>>
                 THEN [raised |-> "", id |-> <<>>]
                 ELSE IF IsNa(name) THEN [raised |-> "AttributeError", id |-> <<>>]
                 ELSE IF net.card_response = "error"
                 THEN [raised |-> "ConnectionError", id |-> <<>>]
                 ELSE IF net.card_response = "200"
                 THEN [raised |-> "",
                       id |-> CardId(Strip(name), (CHOOSE e \in found : TRUE).code)]
                 ELSE [raised |-> "", id |-> <<>>]

\* ------------------------------------------- convert_to_tcgpowertools_format

\* df["FINISH"].str.lower().eq("foil"); NaN is not "foil"
IsFoil(finish) == ~IsNa(finish) /\ Lower(finish) = t_foil

\* Series.fillna(default): NaN, and only NaN, becomes the default
FillNa(cell, default) == IF IsNa(cell) THEN default ELSE cell

\* the value the set column of an output row takes
SetField(r) == r.SETNAME

PowerToolsRow(r, id, default_condition, default_language) ==
    [idProduct |-> id, quantity |-> r.QUANTITY, name |-> r.NAME,
     set |-> SetField(r),
     condition |-> FillNa(r.CONDITION, default_condition),
     language |-> FillNa(r.LANG, default_language),
     isFoil |-> IsFoil(r.FINISH),
     isPlayset |-> <<>>, isSigned |-> <<>>, isFirstEd |-> <<>>, price |-> <<>>,
     comment |-> FillNa(r.NOTES, <<>>)]

\* the identifier of one row under the strategy of the run
ResolveRow(r, fetch_ids, use_scryfall, lookup, net) ==
    IF ~fetch_ids THEN [raised |-> "", id |-> <<>>]
    ELSE IF use_scryfall THEN get_scryfall_id(r.NAME, r.SETNAME, net)
    ELSE get_cardmarket_id(r.NAME, r.SETNAME, lookup)

\* convert_to_tcgpowertools_format: [raised, rows, lookups].  table is [columns,
\* rows, floats].
\* df.apply over a table without rows gives a table, not a column: whether the
\* assignment to idProduct then raises depends on the pandas at hand
\* (empty_apply_raises).  .str raises on a float64 FINISH column.  lookups are
\* the identifier lookups df.apply made, up to the first that raised.
convert_to_tcgpowertools_format(table, default_condition, default_language, fetch, use_scryfall, catalog, net, empty_apply_raises) ==
    LET rows == table.rows
        lookup == build_id_lookup_table(load_cardmarket_mapping(catalog))
        ids == [i \in 1..Len(rows) |-> ResolveRow(rows[i], fetch, use_scryfall, lookup, net)]
        failed == {i \in 1..Len(rows) : ids[i].raised # ""}
        first == CHOOSE i \in failed : \A j \in failed : i <= j
        lookups == IF ~fetch THEN <<>>
                   ELSE IF failed = {} THEN ids ELSE SubSeq(ids, 1, first)
    IN  IF fetch /\ rows = <<>> /\ empty_apply_raises
        THEN [raised |-> "ValueError", rows |-> <<>>, lookups |-> lookups]
        ELSE IF failed # {}
        THEN [raised |-> ids[first].raised, rows |-> <<>>, lookups |-> lookups]
        ELSE IF ~table.columns
        THEN [raised |-> "KeyError", rows |-> <<>>, lookups |-> lookups]
        ELSE IF "FINISH" \in table.floats
        THEN [raised |-> "AttributeError", rows |-> <<>>, lookups |-> lookups]
        ELSE [raised |-> "", lookups |-> lookups,
              rows |-> [i \in 1..Len(rows) |->
                           PowerToolsRow(rows[i], ids[i].id, default_condition, default_language)]]

\* ------------------------------------------------------ the Convert handler

VARIABLES
    pc,             \* where the run is: ready, read, normalized, filtered, grouped,
                    \* consolidated, converted, done, failed
    options,        \* the widgets: input_format, remove_basics, default_condition,
                    \* default_language, use_scryfall, set_consolidation
    uploaded_file,  \* the CSV file: [malformed, columns, rows of fields]
    env,            \* what the run finds outside: [catalog, net]
    df_read,        \* pd.read_csv's table
    df,             \* the canonical rows (after the conversion, after the land filter)
    float_cols,     \* the columns of df, among NAME and FINISH, that are float64 columns
    df_grouped,     \* consolidate_duplicates' rows
    df_sets,        \* the table handed to the formatter: [columns, rows]
    resolved,       \* the identifier lookups df.apply made, up to the first that raised
    df_converted,   \* the PowerTools rows
    download,       \* st.download_button: [offered, data]
    messages        \* what st.success and st.error have shown

vars == <<pc, options, uploaded_file, env, df_read, df, float_cols, df_grouped, df_sets,
          resolved, df_converted, download, messages>>

\* fetch_ids = (input_format == "TCG ImportErrors")
fetch_ids == options.input_format = "TCG ImportErrors"

\* except Exception as e: st.error(...)
Except(e, missing) ==
    /\ pc' = "failed"
    /\ messages' = Append(messages, [kind |-> "error", exception |-> e, column |-> missing])

\* df = pd.read_csv(uploaded_file)
ReadCsv ==
    /\ pc = "ready"
    /\ LET r == read_csv(uploaded_file)
       IN  IF r.raised # ""
           THEN Except(r.raised, <<>>) /\ UNCHANGED df_read
           ELSE pc' = "read" /\ df_read' = r /\ UNCHANGED messages
    /\ UNCHANGED <<options, uploaded_file, env, df, float_cols, df_grouped, df_sets,
                   resolved, df_converted, download>>

\* the conversion of the table to canonical rows, by input format
ConvertInput(table, input_format) ==
    IF input_format = "TCG ImportErrors"
    THEN LET renamed == RenameFirstColumn(DropErrorColumn(table))
         IN  IF renamed.raised # ""
             THEN [raised |-> renamed.raised, missing |-> <<>>, rows |-> <<>>, floats |-> {}]
             ELSE convert_error_format(renamed)
    ELSE convert_topdecked_format(table)

Normalize ==
    /\ pc = "read"
    /\ LET r == ConvertInput(df_read, options.input_format)
       IN  IF r.raised # ""
           THEN Except(r.raised, r.missing) /\ UNCHANGED <<df, float_cols>>
           ELSE /\ pc' = "normalized"
                /\ df' = r.rows
                /\ float_cols' = r.floats
                /\ UNCHANGED messages
    /\ UNCHANGED <<options, uploaded_file, env, df_read, df_grouped, df_sets, resolved,
                   df_converted, download>>

\* if remove_basics: df = remove_basic_lands(df)
LandFilter ==
    /\ pc = "normalized"
    /\ pc' = "filtered"
    /\ df' = IF options.remove_basics THEN remove_basic_lands(df) ELSE df
    /\ UNCHANGED <<options, uploaded_file, env, df_read, float_cols, df_grouped, df_sets, resolved,
                   df_converted, download, messages>>

\* df_grouped = consolidate_duplicates(df)
Aggregate ==
    /\ pc = "filtered"
    /\ pc' = "grouped"
    /\ df_grouped' = consolidate_duplicates(df)
    /\ UNCHANGED <<options, uploaded_file, env, df_read, df, float_cols, df_sets, resolved,
                   df_converted, download, messages>>

\* if set_consolidation: df_grouped = consolidate_sets(df_grouped)
ConsolidateSets ==
    /\ pc = "grouped"
    /\ IF options.set_consolidation
       THEN \E mixed_list_raises \in BOOLEAN :
            LET r == consolidate_sets(df_grouped, float_cols, mixed_list_raises)
            IN  IF r.raised # ""
                THEN Except(r.raised, <<>>) /\ UNCHANGED df_sets
                ELSE /\ pc' = "consolidated"
                     /\ df_sets' = [columns |-> r.columns, rows |-> r.rows, floats |-> r.floats]
                     /\ UNCHANGED messages
       ELSE /\ pc' = "consolidated"
            /\ df_sets' = [columns |-> TRUE, rows |-> df_grouped, floats |-> float_cols]
            /\ UNCHANGED messages
    /\ UNCHANGED <<options, uploaded_file, env, df_read, df, float_cols, df_grouped, resolved,
                   df_converted, download>>

\* df_converted = convert_to_tcgpowertools_format(df_grouped, ...)
Format ==
    /\ pc = "consolidated"
    /\ \E empty_apply_raises \in BOOLEAN :
        LET r == convert_to_tcgpowertools_format(df_sets, options.default_condition,
                     options.default_language, fetch_ids, options.use_scryfall,
                     env.catalog, env.net, empty_apply_raises)
        IN  /\ resolved' = r.lookups
            /\ IF r.raised # ""
               THEN Except(r.raised, <<>>) /\ UNCHANGED df_converted
               ELSE pc' = "converted" /\ df_converted' = r.rows /\ UNCHANGED messages
    /\ UNCHANGED <<options, uploaded_file, env, df_read, df, float_cols, df_grouped, df_sets, download>>

\* the download offered after the try block, whether the run failed or not
OfferDownloadUnguarded ==
    /\ pc \in {"converted", "failed"}
    /\ pc' = "done"
    /\ download' = [offered |-> TRUE, data |-> df_converted]
    /\ messages' = Append(messages, [kind |-> "success", exception |-> "", column |-> <<>>])
    /\ UNCHANGED <<options, uploaded_file, env, df_read, df, float_cols, df_grouped, df_sets, resolved,
                   df_converted>>

\* df_converted.to_csv; st.download_button(...); st.success(...)
OfferDownload ==
    /\ pc = "converted"
    /\ pc' = "done"
    /\ download' = [offered |-> TRUE, data |-> df_converted]
    /\ messages' = Append(messages, [kind |-> "success", exception |-> "", column |-> <<>>])
    /\ UNCHANGED <<options, uploaded_file, env, df_read, df, float_cols, df_grouped, df_sets, resolved,
                   df_converted>>

Next == ReadCsv \/ Normalize \/ LandFilter \/ Aggregate \/ ConsolidateSets \/ Format
        \/ OfferDownload

\* ------------------------------------------------------------- the inputs

\* the rows over a sequence of cell domains, one domain per column
RECURSIVE RowsOver(_)
RowsOver(doms) == IF doms = <<>> THEN {<<>>}
                  ELSE {<<h>> \o t : h \in Head(doms), t \in RowsOver(Tail(doms))}

\* the fields a column may hold in the files of a family, by what its header
\* reads once trimmed and lowercased
FieldsFor(header, dom) ==
    LET h == Lower(Strip(header))
    IN  IF h = t_quantity THEN dom.quantity
        ELSE IF h = t_name THEN dom.name
        ELSE IF h \in {Lower(T_SETNAME), t_expansion} THEN dom.setname
        ELSE IF h = Lower(T_SETCODE) THEN dom.setcode
        ELSE IF h \in {Lower(T_NOTES), t_comment} THEN dom.notes
        ELSE IF h = t_condition THEN dom.condition
        ELSE IF h \in {Lower(T_FINISH), t_foil} THEN dom.finish
        ELSE dom.other

\* the well-formed files with these columns and at most maxRows rows of rowSet
FilesOver(columns, rowSet, maxRows) ==
    {[malformed |-> FALSE, columns |-> columns, rows |-> rs] :
        rs \in UNION {[1..n -> rowSet] : n \in 0..maxRows}}

\* the well-formed files with these columns and at most maxRows rows
FilesWith(columns, dom, maxRows) ==
    FilesOver(columns, RowsOver([j \in 1..Len(columns) |-> FieldsFor(columns[j], dom)]), maxRows)

MalformedFile == [malformed |-> TRUE, columns |-> <<>>, rows |-> <<>>]

Conditions == << <<"N","M">>, <<"E","X">>, <<"G","D">>, <<"L","P">>, <<"P","L">>, <<"P","O">> >>

English == <<"E","n","g","l","i","s","h">>

German == <<"G","e","r","m","a","n">>

\* the widget states the runs are taken from: use_scryfall is offered with the
\* ImportErrors format only
OptionsOf(formats, removals, conditions, consolidations, scryfalls) ==
    {o \in [input_format : formats, remove_basics : removals,
            default_condition : conditions, default_language : {English, German},
            use_scryfall : scryfalls, set_consolidation : consolidations] :
        /\ o.use_scryfall => o.input_format = "TCG ImportErrors"
        /\ (o.default_language = German) = (o.default_condition # Conditions[1])}

InitWith(files, opts, envs) ==
    /\ pc = "ready"
    /\ uploaded_file \in files
    /\ options \in opts
    /\ env \in envs
    /\ df_read = [raised |-> "", columns |-> <<>>, rows |-> <<>>]
    /\ df = <<>>
    /\ float_cols = {}
    /\ df_grouped = <<>>
    /\ df_sets = [columns |-> TRUE, rows |-> <<>>, floats |-> {}]
    /\ resolved = <<>>
    /\ df_converted = <<>>
    /\ download = [offered |-> FALSE, data |-> <<>>]
    /\ messages = <<>>


\* what a run that looks nothing up finds outside
NoCatalog == [readable |-> FALSE, products |-> <<>>]

Offline == [sets_response |-> "error", card_response |-> "error", directory |-> {}]

QuietEnv == [catalog |-> NoCatalog, net |-> Offline]

Entry(name, idProduct, idExpansion) ==
    [isdict |-> TRUE, name |-> name, idProduct |-> idProduct, idExpansion |-> idExpansion]

NotADict == [isdict |-> FALSE, name |-> Absent, idProduct |-> Absent, idExpansion |-> Absent]

Catalog1 == [readable |-> TRUE,
             products |-> << Entry(<<"B">>, <<"7">>, <<"1">>),
                             NotADict,
                             Entry(<<" ","b">>, <<"8">>, <<"X","2">>),
                             Entry(Absent, <<"9">>, <<"3">>) >>]

Directory1 == {[name |-> <<"X">>, code |-> <<"c">>]}

Net(sets_response, card_response) ==
    [sets_response |-> sets_response, card_response |-> card_response,
     directory |-> Directory1]

Envs == { [catalog |-> NoCatalog, net |-> Net("200", "200")],
          [catalog |-> Catalog1, net |-> Net("error", "error")],
          [catalog |-> Catalog1, net |-> Net("500", "200")],
          [catalog |-> Catalog1, net |-> Net("200", "404")],
          [catalog |-> NoCatalog, net |-> Net("200", "error")] }

\* ---- the runs of the handler at large: both formats, every kind of failure

MaxRows == 2

\* the fields of a family of files, column by column
Fields(quantity, name, setname, setcode, notes, condition, finish) ==
    [quantity |-> quantity, name |-> name, setname |-> setname, setcode |-> setcode,
     notes |-> notes, condition |-> condition, finish |-> finish, other |-> { <<"7">> }]

Bolt == <<"B">>

Forest == <<"F","o","r","e","s","t">>

Files ==
    {MalformedFile}
    \cup FilesWith(<<T_QUANTITY, T_NAME, T_SETNAME, T_SETCODE>>,
                   Fields({ <<"2">>, <<"-","3">> }, {Bolt}, { <<>>, <<"x">> },
                          { <<>>, <<"c">> }, {}, {}, {}), MaxRows)
    \cup FilesWith(<< <<" ","q","u","a","n","t","i","t","y">>, <<"N","a","m","e"," ">>,
                      T_CONDITION, T_FINISH >>,
                   Fields({ <<"2">> }, {Bolt, Forest}, {}, {}, {},
                          { <<>>, <<"L","P">> }, { <<>>, <<"F","O","I","L">> }), MaxRows)
    \cup FilesWith(<<T_QUANTITY, T_NAME, T_SETNAME, T_NOTES>>,
                   Fields({ <<"2">> }, {Bolt}, { <<"x">>, <<"y">> }, {},
                          { <<>>, <<"n">> }, {}, {}), MaxRows)
    \cup FilesWith(<<T_NAME>>, Fields({}, {Bolt}, {}, {}, {}, {}, {}), MaxRows)
    \cup FilesWith(<<t_idProduct, t_quantity, t_name, t_expansion, t_foil>>,
                   Fields({ <<"2">> }, {Bolt, <<>>}, { <<>>, <<"x">> }, {}, {}, {},
                          { <<>>, <<"F","O","I","L">> }), MaxRows)
    \cup FilesWith(<<t_error, t_idProduct, t_quantity, t_name, t_foil, t_condition>>,
                   Fields({ <<"2">> }, {Bolt, Forest}, {}, {}, {},
                          { <<>>, <<"L","P">> }, { t_yes }), MaxRows)
    \cup FilesWith(<<t_quantity, t_name, t_foil>>,
                   Fields({ <<"2">> }, {Bolt}, {}, {}, {}, {}, { t_yes }), MaxRows)
    \cup FilesWith(<<t_idProduct, t_quantity, t_name>>,
                   Fields({ <<"2">> }, {Bolt}, {}, {}, {}, {}, {}), MaxRows)
    \cup FilesWith(<<t_error>>, Fields({}, {}, {}, {}, {}, {}, {}), MaxRows)

Init ==
    /\ InitWith(Files,
                OptionsOf({"TopDecked", "TCG ImportErrors"}, BOOLEAN,
                          {Conditions[1], Conditions[2]}, BOOLEAN, BOOLEAN),
                Envs \cup {QuietEnv})
    /\ (env = QuietEnv) = (options.input_format = "TopDecked")

Spec == Init /\ [][Next]_vars

\* ---- the aggregation family: TopDecked files whose quantities and key cells
\* ---- are of every kind (whole, negative, fractional, no number, missing)

MaxRowsAggregate == 2

FilesAggregate ==
    FilesWith(<<T_QUANTITY, T_NAME, T_SETNAME, T_NOTES>>,
              Fields({ <<"2">>, <<"-","3">>, <<"2",".","5">>, <<"x">>, <<>> },
                     {Bolt, <<>>}, { <<"x">>, <<>> }, {}, { <<"n">>, <<>> }, {}, {}),
              MaxRowsAggregate)

InitAggregate ==
    InitWith(FilesAggregate,
             OptionsOf({"TopDecked"}, {TRUE}, {Conditions[1]}, {FALSE}, {FALSE}),
             {QuietEnv})

SpecAggregate == InitAggregate /\ [][Next]_vars

\* ---- the set consolidation family: two names that differ in case only and a
\* ---- third, two sets and no set, equal and unequal quantities

MaxRowsSets == 3

FilesSets ==
    FilesOver(<<T_QUANTITY, T_NAME, T_SETNAME, T_NOTES>>,
              RowsOver(<< { <<"1">>, <<"2">> }, {Bolt, <<"b">>}, { <<"x">>, <<"y">>, <<>> },
                          { <<"n">> } >>)
              \cup RowsOver(<< { <<"1">> }, { <<"C">> }, { <<"x">>, <<"y">> }, { <<"n">> } >>),
              MaxRowsSets)

InitSets ==
    InitWith(FilesSets,
             OptionsOf({"TopDecked"}, {TRUE}, {Conditions[1]}, {TRUE}, {FALSE}),
             {QuietEnv})

SpecSets == InitSets /\ [][Next]_vars

\* ---- the schema family: ImportErrors files with the columns in every order

MaxColumns == 4

MaxRowsSchema == 1

Headers == { <<"i","d">>, t_quantity, <<" ","Q","u","a","n","t","i","t","y">>, t_name,
             t_foil, t_error }

\* the headers as convert_error_format sees them
SeenHeaders(columns) ==
    LET kept == SelectSeq(columns, LAMBDA h : h # t_error)
    IN  [i \in 1..Len(kept) |-> IF i = 1 THEN Lower(t_idProduct) ELSE Lower(Strip(kept[i]))]

\* files pd.read_csv gives distinct labels, and which keep them distinct (a
\* repeated label selects a table, not a column)
LayoutsSchema ==
    {c \in UNION {[1..n -> Headers] : n \in 1..MaxColumns} :
        /\ \A i, j \in 1..Len(c) : c[i] = c[j] => i = j
        /\ \A i, j \in 1..Len(SeenHeaders(c)) : SeenHeaders(c)[i] = SeenHeaders(c)[j] => i = j}

FilesSchema ==
    UNION {FilesWith(c, Fields({ <<"2">> }, {Bolt}, {}, {}, {}, {}, { t_yes }), MaxRowsSchema) :
              c \in LayoutsSchema}

InitSchema ==
    InitWith(FilesSchema,
             OptionsOf({"TCG ImportErrors"}, {TRUE}, {Conditions[1]}, {FALSE}, {FALSE}),
             {[catalog |-> Catalog1, net |-> Net("200", "200")]})

SpecSchema == InitSchema /\ [][Next]_vars

\* --------------------------------------------------------------- properties

Aggregated == pc \in {"grouped", "consolidated", "converted", "done"}

Consolidated == pc \in {"consolidated", "converted", "done"} /\ options.set_consolidation

Quantities(rows) == [i \in 1..Len(rows) |-> rows[i].QUANTITY]

\* C1: once consolidate_duplicates has run, the quantities of its rows add up to
\* the sum, over the rows it was given, of the quantity coerced to an integer
\* (0 for what is missing or no number), rows with missing key cells included.
C1_QuantityPreserved ==
    Aggregated =>
        SumSeq(Quantities(df_grouped))
            = SumSeq([i \in 1..Len(df) |-> QuantityToInt(df[i].QUANTITY)])

\* C1 witness: an aggregation that merged rows, of a table with a row whose key
\* cells are missing and whose quantity counts, and a row whose quantity is no number
C1_Witness ==
    /\ pc = "grouped"
    /\ Len(df_grouped) < Len(df)
    /\ \E i \in 1..Len(df) : /\ IsNa(df[i].NAME) /\ IsNa(df[i].SETNAME) /\ IsNa(df[i].NOTES)
                              /\ QuantityToInt(df[i].QUANTITY) # 0
    /\ \E i \in 1..Len(df) : ~IsNa(df[i].QUANTITY) /\ ~Numeric(df[i].QUANTITY)

\* the quantities of the rows of a table whose name normalizes to key
NameQuantity(rows, key) ==
    SumSeq([i \in 1..Len(rows) |-> IF GROUP_KEY(rows[i]) = key THEN rows[i].QUANTITY ELSE 0])

\* C2: once consolidate_sets has run, for every normalized name the quantities of
\* its output rows add up to the quantities of its input rows of that name.
C2_QuantityPerName ==
    Consolidated =>
        \A key \in NameGroups(df_grouped) \cup NameGroups(df_sets.rows) :
            NameQuantity(df_sets.rows, key) = NameQuantity(df_grouped, key)

\* C2 witness: a consolidated name group one of whose rows has no set name
C2_Witness ==
    /\ pc = "consolidated" /\ options.set_consolidation
    /\ \E key \in NameGroups(df_grouped) :
          /\ Consolidates(GroupRows(df_grouped, key))
          /\ \E r \in RangeOf(GroupRows(df_grouped, key)) : IsNa(r.SETNAME) /\ r.QUANTITY > 0
          /\ Len(GroupRows(df_sets.rows, key)) = 1

\* the set names of a group whose summed quantity is the largest
BestSets(group) ==
    {n \in SetNames(group) : \A m \in SetNames(group) :
        SetQuantity(group, m) <= SetQuantity(group, n)}

\* the first set name of BestSets in the row order of the group
FirstSeenBest(group) ==
    group[CHOOSE i \in 1..Len(group) :
             /\ group[i].SETNAME \in BestSets(group)
             /\ \A j \in 1..(i - 1) : ~(group[j].SETNAME \in BestSets(group))].SETNAME

\* C3 as claimed: the consolidated row of a name group that spans several sets
\* bears the set name of the largest summed quantity and, among several such,
\* the one met first in the row order of the group.
C3_FirstSeenWins ==
    Consolidated =>
        \A key \in NameGroups(df_grouped) :
            LET g == GroupRows(df_grouped, key)
            IN  Consolidates(g) =>
                    GroupRows(df_sets.rows, key)[1].SETNAME = FirstSeenBest(g)

\* C3 amended: the consolidated row bears the set name of the largest summed
\* quantity and, among several such, the one that sorts first as a string.
C3_SmallestNameWins ==
    Consolidated =>
        \A key \in NameGroups(df_grouped) :
            LET g == GroupRows(df_grouped, key)
                w == GroupRows(df_sets.rows, key)[1].SETNAME
            IN  Consolidates(g) =>
                    /\ Len(GroupRows(df_sets.rows, key)) = 1
                    /\ w \in BestSets(g)
                    /\ \A m \in BestSets(g) : m = w \/ StrLess(w, m)

\* C3 witness: a consolidated group two of whose sets tie for the largest quantity
C3_Witness ==
    /\ pc = "consolidated" /\ options.set_consolidation
    /\ \E key \in NameGroups(df_grouped) :
          /\ Consolidates(GroupRows(df_grouped, key))
          /\ Cardinality(BestSets(GroupRows(df_grouped, key))) > 1
          /\ Len(GroupRows(df_grouped, key)) = 3

Present(cell) == ~IsNa(cell) /\ cell # <<>>

\* C4 as claimed: no row of a successful run has an empty condition; a row whose
\* condition is missing, its column absent or its cell empty, has the default.
C4_ConditionNeverEmpty ==
    pc = "done" =>
        \A i \in 1..Len(download.data) :
            /\ download.data[i].condition # <<>>
            /\ ~Present(df_sets.rows[i].CONDITION)
                   => download.data[i].condition = options.default_condition

\* C5 as claimed: no identifier lookup of a row that has a name raises, whatever
\* the catalog, the set hint and the remote answers are.
C5_ResolutionNeverRaises ==
    \A i \in 1..Len(resolved) : ~IsNa(df_sets.rows[i].NAME) => resolved[i].raised = ""

\* C6 as claimed: the set field of an output row is the set name of its row when
\* there is one, and its set code when there is none.
C6_SetFallsBackToCode ==
    pc \in {"converted", "done"} =>
        \A i \in 1..Len(df_converted) :
            df_converted[i].set = IF Present(df_sets.rows[i].SETNAME)
                                  THEN df_sets.rows[i].SETNAME
                                  ELSE df_sets.rows[i].SETCODE

\* the stages of the run, from what they were given
StagesSucceeded ==
    /\ read_csv(uploaded_file).raised = ""
    /\ df_read = read_csv(uploaded_file)
    /\ ConvertInput(df_read, options.input_format).raised = ""
    /\ options.set_consolidation => consolidate_sets(df_grouped, float_cols, FALSE).raised = ""
    /\ \A i \in 1..Len(resolved) : resolved[i].raised = ""
    /\ fetch_ids => Len(resolved) = Len(df_sets.rows)
    /\ Len(df_converted) = Len(df_sets.rows)

\* C7: a run ends in one of two ways.  The table is offered only when the run is
\* done, every stage having succeeded, and it is then the whole converted table
\* under one success message; a failed run shows one error message and offers
\* no table; there is never more than one message.
C7_AllOrNothing ==
    /\ pc \in {"ready", "read", "normalized", "filtered", "grouped", "consolidated",
               "converted", "done", "failed"}
    /\ download.offered <=> pc = "done"
    /\ pc = "done" => /\ StagesSucceeded
                      /\ download.data = df_converted
                      /\ Len(messages) = 1 /\ messages[1].kind = "success"
    /\ pc = "failed" => Len(messages) = 1 /\ messages[1].kind = "error"
    /\ ~(pc \in {"done", "failed"}) => messages = <<>>

\* C7 witness: a run that failed while looking identifiers up, after its rows
\* had been read, normalized, filtered and aggregated
C7_Witness ==
    /\ pc = "failed"
    /\ df_grouped # <<>>
    /\ resolved # <<>>
    /\ ~download.offered

\* C8 as claimed: from consolidate_duplicates on, every quantity is a
\* non-negative integer.
C8_QuantityNonNegative ==
    Aggregated =>
        /\ \A i \in 1..Len(df_grouped) : df_grouped[i].QUANTITY \in Nat
        /\ pc # "grouped" => \A i \in 1..Len(df_sets.rows) : df_sets.rows[i].QUANTITY \in Nat
        /\ \A i \in 1..Len(df_converted) : df_converted[i].quantity \in Nat

\* the catalog entries of a name, in catalog order (C9's candidates)
Candidates(products, name) ==
    LET Same(e) == e.isdict /\ e.name # Absent /\ ~IsNa(name)
                   /\ Lower(Strip(e.name)) = Lower(Strip(name))
    IN  SelectSeq(products, Same)

\* the identifier C9's fallback chain gives
ChainId(products, name, hint) ==
    LET cands == Candidates(products, name)
        hits == {i \in 1..Len(cands) :
                    /\ Present(hint)
                    /\ Contains(Lower(GetOr(cands[i].idExpansion)), Lower(Strip(hint)))}
    IN  IF cands = <<>> THEN <<>>
        ELSE IF hits # {} THEN GetOr(cands[CHOOSE i \in hits : \A j \in hits : i <= j].idProduct)
        ELSE GetOr(cands[1].idProduct)

LocalLookups == fetch_ids /\ ~options.use_scryfall /\ pc \in {"converted", "done", "failed"}

\* C9 as claimed: every lookup of a name in the local catalog returns what the fallback
\* chain gives: empty without an entry of that name, else the first entry whose
\* expansion contains a non-empty set hint, else (no such entry, or an empty or
\* missing hint) the first entry of that name.
C9_FallbackChain ==
    LocalLookups =>
        \A i \in 1..Len(resolved) :
            ~IsNa(df_sets.rows[i].NAME) =>
            resolved[i] = [raised |-> "",
                           id |-> ChainId(load_cardmarket_mapping(env.catalog),
                                          df_sets.rows[i].NAME, df_sets.rows[i].SETNAME)]

\* the uploaded table has a column whose header, trimmed and lowercased, is col
RawHas(columns, col) == \E i \in 1..Len(columns) : Lower(Strip(columns[i])) = col

\* the run failed on a missing required column
MissingColumnRaised ==
    /\ pc = "failed"
    /\ messages[1].exception = "ValueError"
    /\ messages[1].column \in {t_quantity, t_name}

SchemaDecided ==
    /\ options.input_format = "TCG ImportErrors"
    /\ ~uploaded_file.malformed
    /\ ~(pc \in {"ready", "read"})

\* C10 as claimed: an ImportErrors run raises the missing-column error exactly
\* when the table has no quantity column or no name column, wherever they stand.
C10_AnyPosition ==
    SchemaDecided =>
        (MissingColumnRaised <=> \/ ~RawHas(uploaded_file.columns, t_quantity)
                                 \/ ~RawHas(uploaded_file.columns, t_name))

\* the columns left when the column named exactly error is dropped
KeptColumns == SelectSeq(uploaded_file.columns, LAMBDA h : h # t_error)

\* C10 amended: the error is raised exactly when a column is left once the column
\* named error is dropped, and the columns after the first of those left have no
\* quantity column or no name column: the first column is renamed and never counts.
C10_FirstColumnNeverCounts ==
    SchemaDecided =>
        (MissingColumnRaised <=>
            /\ KeptColumns # <<>>
            /\ \/ ~RawHas(Tail(KeptColumns), t_quantity)
               \/ ~RawHas(Tail(KeptColumns), t_name))

\* C10 witness: a table with a quantity and a name column, refused for one of them
C10_Witness ==
    /\ SchemaDecided
    /\ MissingColumnRaised
    /\ RawHas(uploaded_file.columns, t_quantity)
    /\ RawHas(uploaded_file.columns, t_name)
    /\ Len(uploaded_file.rows) > 0

====
